---- MODULE Spec2Model ----
(***************************************************************************)
(* Model of execution/memory_ops.py: the MemoryDB class, a knowledge-graph *)
(* memory (entities, observations, relations) and a directive-run log kept *)
(* in one SQLite database reached through one sqlite3 connection.          *)
(*                                                                         *)
(* A nullable value (a Python None argument, a NULL column) is a sequence  *)
(* of length at most one: None is << >> and a present value v is << v >>.  *)
(* NOT NULL columns store the bare value.                                  *)
(***************************************************************************)
EXTENDS Integers, Sequences, FiniteSets, TLC

\* ---------------------------------------------------------------- bounds
MaxEntityId == 2
MaxObsId == 2
MaxRelId == 2
MaxRunId == 2
MaxClock == 1

\* ---------------------------------------------------------- input domains
None == << >>
Some(v) == << v >>
Opt(S) == {None} \cup {Some(v) : v \in S}

Names == {"a", "b"}
EntityTypes == {"t", "u"}
Contents == {"x"}
RelationTypes == {"uses", "owns"}

\* arguments as the callers pass them: names and types are always texts, an
\* observation text may be missing
NameArgs == {Some(n) : n \in Names}
EntityTypeArgs == {Some(t) : t \in EntityTypes}
RelationTypeArgs == {Some(t) : t \in RelationTypes}
ContentArgs == Opt(Contents)

\* the calls that open a run: a directive name (the empty text included) and
\* its optional input summary
RunStarts ==
    {[directive |-> Some(""), input_summary |-> None],
     [directive |-> Some("x"), input_summary |-> Some("i")]}
\* the calls that close a run: each status of the enumeration and one value
\* outside it, with the optional texts given or omitted
RunOutcomes ==
    {[status |-> Some("started"), notes |-> None, error_message |-> None,
      output_summary |-> None],
     [status |-> Some("success"), notes |-> Some("n"), error_message |-> None,
      output_summary |-> Some("o")],
     [status |-> Some("failed"), notes |-> None, error_message |-> Some("e"),
      output_summary |-> None],
     [status |-> Some("partial"), notes |-> Some("n"), error_message |-> Some("e"),
      output_summary |-> Some("o")],
     [status |-> Some("bogus"), notes |-> None, error_message |-> None,
      output_summary |-> None]}

\* the observations argument of create_entity: None or a list of at most two
\* items, each a text or None
ObservationLists ==
    {<< >>} \cup {<<c>> : c \in ContentArgs}
            \cup {<<c, d>> : c \in ContentArgs, d \in ContentArgs}

\* ------------------------------------------------------------------ state
VARIABLES
    entities,        \* the tables as the connection sees them
    observations,
    relations,
    directive_runs,
    sqlite_sequence, \* AUTOINCREMENT high-water mark per table
    disk,            \* the committed database file
    now,             \* CURRENT_TIMESTAMP
    ret,             \* what the last call returned
    conn,            \* the sqlite3 connection: "open" or "closed"
    pc               \* the caller's position: "try", "finally" or "exit"

tables == <<entities, observations, relations, directive_runs, sqlite_sequence>>
\* the caller: a program that holds the open connection and calls the methods
\* stays at "try"; main goes on to "finally" and "exit"
process == <<conn, pc>>
vars == <<entities, observations, relations, directive_runs,
          sqlite_sequence, disk, now, ret, conn, pc>>

\* the connection's view of the database, as one value
View ==
    [entities |-> entities, observations |-> observations,
     relations |-> relations, directive_runs |-> directive_runs,
     sqlite_sequence |-> sqlite_sequence]

\* ---------------------------------------------------------------- results
\* the outcome of a call: "ok" (a result without an error key), "conflict"
\* (the error "... already exists"), "not_found" (the error "... not found"),
\* "raise" (an exception leaves the method); id is the id the result carries
Result(op, kind, id) == [op |-> op, kind |-> kind, id |-> id]

\* ---------------------------------------------------------- the connection
\* PRAGMA foreign_keys of the connection: sqlite3.connect leaves it at
\* SQLite's default, off, and no statement of the class turns it on
foreign_keys == FALSE

\* conn.commit(): the connection's view becomes the database file
commit ==
    disk' = [entities |-> entities', observations |-> observations',
             relations |-> relations', directive_runs |-> directive_runs',
             sqlite_sequence |-> sqlite_sequence']

\* lastrowid for a key without AUTOINCREMENT: one more than the largest id
\* in the table now
lastrowid_MaxRowid(table) ==
    LET ids == CASE table = "entities" -> {e.id : e \in entities}
                 [] table = "observations" -> {o.id : o \in observations}
                 [] table = "relations" -> {r.id : r \in relations}
                 [] table = "directive_runs" -> {r.id : r \in directive_runs}
    IN  IF ids = {} THEN 1 ELSE (CHOOSE i \in ids : \A j \in ids : j <= i) + 1

\* AUTOINCREMENT: one more than the largest id the table has ever held
lastrowid(table) == sqlite_sequence[table] + 1

Init ==
    /\ entities = {}
    /\ observations = {}
    /\ relations = {}
    /\ directive_runs = {}
    /\ sqlite_sequence = [entities |-> 0, observations |-> 0,
                          relations |-> 0, directive_runs |-> 0]
    /\ disk = [entities |-> {}, observations |-> {}, relations |-> {},
               directive_runs |-> {},
               sqlite_sequence |-> [entities |-> 0, observations |-> 0,
                                    relations |-> 0, directive_runs |-> 0]]
    /\ now = 0
    /\ ret = Result("init_schema", "ok", None)
    /\ conn = "open"
    /\ pc = "try"

\* wall-clock time passes between statements
Tick ==
    /\ now < MaxClock
    /\ now' = now + 1
    /\ UNCHANGED <<tables, disk, ret>>

\* close() followed by MemoryDB(): an uncommitted transaction is rolled back
Reopen ==
    /\ entities' = disk.entities
    /\ observations' = disk.observations
    /\ relations' = disk.relations
    /\ directive_runs' = disk.directive_runs
    /\ sqlite_sequence' = disk.sqlite_sequence
    /\ ret' = Result("connect", "ok", None)
    /\ UNCHANGED <<disk, now>>

\* init_schema on an initialized database: every CREATE ... IF NOT EXISTS is
\* a no-op, then commit
init_schema ==
    /\ UNCHANGED <<tables, now>>
    /\ commit
    /\ ret' = Result("init_schema", "ok", None)

\* ------------------------------------------------------- entity operations
\* SELECT ... FROM entities WHERE name = ?  (NULL = NULL is not true)
EntityByName(name) == {e \in entities : name = Some(e.name)}

\* EntityInsertFails with the UNIQUE constraint on name left out
EntityInsertFails_NoUnique(name, entity_type) ==
    \/ name = None
    \/ entity_type = None

\* the entities INSERT fails: NOT NULL on name and entity_type, UNIQUE on name
EntityInsertFails(name, entity_type) ==
    \/ name = None
    \/ entity_type = None
    \/ EntityByName(name) # {}

\* the longest prefix of obs the loop inserts before a NOT NULL failure
RECURSIVE InsertedPrefix(_)
InsertedPrefix(obs) ==
    IF obs = << >> \/ Head(obs) = None THEN << >>
    ELSE <<Head(obs)>> \o InsertedPrefix(Tail(obs))

ObservationRows(entity_id, prefix) ==
    {[id |-> sqlite_sequence.observations + i, entity_id |-> entity_id,
      content |-> prefix[i][1], created_at |-> now] : i \in 1..Len(prefix)}

create_entity(name, entity_type, obs) ==
    IF EntityInsertFails(name, entity_type)
    THEN /\ ret' = Result("create_entity", "conflict", None)
         /\ UNCHANGED <<tables, disk, now>>
    ELSE LET entity_id == lastrowid("entities")
             prefix == InsertedPrefix(obs)
         IN  /\ entity_id <= MaxEntityId
             /\ sqlite_sequence.observations + Len(prefix) <= MaxObsId
             /\ entities' = entities \cup
                    {[id |-> entity_id, name |-> name[1],
                      entity_type |-> entity_type[1], created_at |-> now]}
             /\ observations' = observations \cup ObservationRows(entity_id, prefix)
             /\ sqlite_sequence' =
                    [sqlite_sequence EXCEPT !.entities = entity_id,
                                            !.observations = @ + Len(prefix)]
             /\ UNCHANGED <<relations, directive_runs, now>>
             /\ IF Len(prefix) = Len(obs)
                THEN /\ commit
                     /\ ret' = Result("create_entity", "ok", Some(entity_id))
                ELSE \* IntegrityError caught with no rollback: the rows stay
                     \* in the open transaction
                     /\ UNCHANGED disk
                     /\ ret' = Result("create_entity", "conflict", None)

\* get_entity(name): None when no entity has the name
get_entity(name) ==
    IF EntityByName(name) = {} THEN None
    ELSE LET entity == CHOOSE e \in EntityByName(name) : TRUE
         IN  Some([id |-> entity.id, name |-> entity.name,
                   type |-> entity.entity_type,
                   created_at |-> entity.created_at,
                   observations |->
                       {[id |-> o.id, content |-> o.content,
                         created_at |-> o.created_at] :
                           o \in {p \in observations : p.entity_id = entity.id}},
                   relations_outgoing |->
                       {[id |-> r.id, relation_type |-> r.relation_type,
                         to_entity |-> e.name] :
                           <<r, e>> \in {q \in relations \X entities :
                               /\ q[1].to_entity_id = q[2].id
                               /\ q[1].from_entity_id = entity.id}},
                   relations_incoming |->
                       {[id |-> r.id, relation_type |-> r.relation_type,
                         from_entity |-> e.name] :
                           <<r, e>> \in {q \in relations \X entities :
                               /\ q[1].from_entity_id = q[2].id
                               /\ q[1].to_entity_id = entity.id}}])

delete_entity(name) ==
    LET deleted == {e.id : e \in EntityByName(name)}
        \* ON DELETE CASCADE fires only under PRAGMA foreign_keys = ON
        CascadeEnabled == foreign_keys
    IN  /\ entities' = entities \ EntityByName(name)
        /\ observations' =
               IF CascadeEnabled
               THEN {o \in observations : o.entity_id \notin deleted}
               ELSE observations
        /\ relations' =
               IF CascadeEnabled
               THEN {r \in relations : /\ r.from_entity_id \notin deleted
                                       /\ r.to_entity_id \notin deleted}
               ELSE relations
        /\ UNCHANGED <<directive_runs, sqlite_sequence, now>>
        /\ commit
        /\ ret' = IF deleted # {}
                  THEN Result("delete_entity", "ok", None)
                  ELSE Result("delete_entity", "not_found", None)

\* -------------------------------------------------- observation operations
add_observation(entity_name, content) ==
    IF EntityByName(entity_name) = {}
    THEN /\ ret' = Result("add_observation", "not_found", None)
         /\ UNCHANGED <<tables, disk, now>>
    ELSE IF content = None
    THEN \* NOT NULL constraint failed: IntegrityError, not caught
         /\ ret' = Result("add_observation", "raise", None)
         /\ UNCHANGED <<tables, disk, now>>
    ELSE LET entity == CHOOSE e \in EntityByName(entity_name) : TRUE
             obs_id == lastrowid("observations")
         IN  /\ obs_id <= MaxObsId
             /\ observations' = observations \cup
                    {[id |-> obs_id, entity_id |-> entity.id,
                      content |-> content[1], created_at |-> now]}
             /\ sqlite_sequence' = [sqlite_sequence EXCEPT !.observations = obs_id]
             /\ UNCHANGED <<entities, relations, directive_runs, now>>
             /\ commit
             /\ ret' = Result("add_observation", "ok", Some(obs_id))

delete_observation(obs_id) ==
    LET deleted == {o \in observations : o.id = obs_id}
    IN  /\ observations' = observations \ deleted
        /\ UNCHANGED <<entities, relations, directive_runs,
                       sqlite_sequence, now>>
        /\ commit
        /\ ret' = IF deleted # {}
                  THEN Result("delete_observation", "ok", Some(obs_id))
                  ELSE Result("delete_observation", "not_found", None)

\* ----------------------------------------------------- relation operations
\* RelationInsertFails with the uniqueness taken over the pair of endpoints,
\* the relation type left out of the key
RelationInsertFails_PairKey(from_id, to_id, relation_type) ==
    \/ relation_type = None
    \/ \E r \in relations : /\ r.from_entity_id = from_id
                            /\ r.to_entity_id = to_id

\* the relations INSERT fails: NOT NULL on relation_type,
\* UNIQUE(from_entity_id, to_entity_id, relation_type)
RelationInsertFails(from_id, to_id, relation_type) ==
    \/ relation_type = None
    \/ \E r \in relations : /\ r.from_entity_id = from_id
                            /\ r.to_entity_id = to_id
                            /\ Some(r.relation_type) = relation_type

create_relation(from_name, to_name, relation_type) ==
    IF EntityByName(from_name) = {}
    THEN /\ ret' = Result("create_relation", "not_found", None)
         /\ UNCHANGED <<tables, disk, now>>
    ELSE IF EntityByName(to_name) = {}
    THEN /\ ret' = Result("create_relation", "not_found", None)
         /\ UNCHANGED <<tables, disk, now>>
    ELSE LET from_entity == CHOOSE e \in EntityByName(from_name) : TRUE
             to_entity == CHOOSE e \in EntityByName(to_name) : TRUE
             rel_id == lastrowid("relations")
         IN  IF RelationInsertFails(from_entity.id, to_entity.id, relation_type)
             THEN \* IntegrityError caught: "Relation already exists"
                  /\ ret' = Result("create_relation", "conflict", None)
                  /\ UNCHANGED <<tables, disk, now>>
             ELSE /\ rel_id <= MaxRelId
                  /\ relations' = relations \cup
                         {[id |-> rel_id, from_entity_id |-> from_entity.id,
                           to_entity_id |-> to_entity.id,
                           relation_type |-> relation_type[1],
                           created_at |-> now]}
                  /\ sqlite_sequence' = [sqlite_sequence EXCEPT !.relations = rel_id]
                  /\ UNCHANGED <<entities, observations,
                                 directive_runs, now>>
                  /\ commit
                  /\ ret' = Result("create_relation", "ok", Some(rel_id))

ObsIds == 1..(MaxObsId + 1)

GraphNext ==
    \/ /\ Reopen
       /\ UNCHANGED process
    \/ /\ init_schema
       /\ UNCHANGED process
    \/ /\ \E name \in NameArgs, entity_type \in EntityTypeArgs,
             obs \in ObservationLists : create_entity(name, entity_type, obs)
       /\ UNCHANGED process
    \/ /\ \E name \in NameArgs : delete_entity(name)
       /\ UNCHANGED process
    \/ /\ \E name \in NameArgs, content \in ContentArgs :
             add_observation(name, content)
       /\ UNCHANGED process
    \/ /\ \E obs_id \in ObsIds : delete_observation(obs_id)
       /\ UNCHANGED process
    \/ /\ \E from_name \in NameArgs, to_name \in NameArgs,
             relation_type \in RelationTypeArgs :
             create_relation(from_name, to_name, relation_type)
       /\ UNCHANGED process

GraphSpec == Init /\ [][GraphNext]_vars

\* every graph operation, the relations confined to "uses" self-relations
EntityNext ==
    \/ /\ Reopen
       /\ UNCHANGED process
    \/ /\ init_schema
       /\ UNCHANGED process
    \/ /\ \E name \in NameArgs, entity_type \in EntityTypeArgs,
             obs \in ObservationLists : create_entity(name, entity_type, obs)
       /\ UNCHANGED process
    \/ /\ \E name \in NameArgs : delete_entity(name)
       /\ UNCHANGED process
    \/ /\ \E name \in NameArgs, content \in ContentArgs :
             add_observation(name, content)
       /\ UNCHANGED process
    \/ /\ \E obs_id \in ObsIds : delete_observation(obs_id)
       /\ UNCHANGED process
    \/ /\ \E name \in NameArgs : create_relation(name, name, Some("uses"))
       /\ UNCHANGED process

EntitySpec == Init /\ [][EntityNext]_vars

\* entities without observations and every relation between them
RelationNext ==
    \/ /\ \E name \in NameArgs, entity_type \in EntityTypeArgs :
             create_entity(name, entity_type, << >>)
       /\ UNCHANGED process
    \/ /\ \E name \in NameArgs : delete_entity(name)
       /\ UNCHANGED process
    \/ /\ \E from_name \in NameArgs, to_name \in NameArgs,
             relation_type \in RelationTypeArgs :
             create_relation(from_name, to_name, relation_type)
       /\ UNCHANGED process

RelationSpec == Init /\ [][RelationNext]_vars

\* ------------------------------------------------ directive run operations
\* CHECK(status IN ('started', 'success', 'failed', 'partial'))
StatusValues == {"started", "success", "failed", "partial"}

\* a directive_runs row is refused: NOT NULL on directive_name and status,
\* CHECK on status
RunRowRefused(directive, status) ==
    \/ directive = None
    \/ status = None
    \/ status[1] \notin StatusValues

log_run_start(directive, input_summary) ==
    IF RunRowRefused(directive, Some("started"))
    THEN /\ ret' = Result("log_run_start", "raise", None)
         /\ UNCHANGED <<tables, disk, now>>
    ELSE LET run_id == lastrowid("directive_runs")
         IN  /\ run_id <= MaxRunId
             /\ directive_runs' = directive_runs \cup
                    {[id |-> run_id, directive_name |-> directive[1],
                      started_at |-> now, ended_at |-> None,
                      status |-> "started", error_message |-> None,
                      notes |-> None, input_summary |-> input_summary,
                      output_summary |-> None]}
             /\ sqlite_sequence' = [sqlite_sequence EXCEPT !.directive_runs = run_id]
             /\ UNCHANGED <<entities, observations, relations, now>>
             /\ commit
             /\ ret' = Result("log_run_start", "ok", Some(run_id))

\* log_run_end with the WHERE id = ? clause left out of the UPDATE
log_run_end_NoWhere(run_id, status, notes, error_message, output_summary) ==
    IF \E r \in directive_runs : RunRowRefused(Some(r.directive_name), status)
    THEN /\ ret' = Result("log_run_end", "raise", None)
         /\ UNCHANGED <<tables, disk, now>>
    ELSE /\ directive_runs' =
                {[r EXCEPT !.ended_at = Some(now),
                           !.status = status[1],
                           !.notes = notes,
                           !.error_message = error_message,
                           !.output_summary = output_summary] : r \in directive_runs}
         /\ UNCHANGED <<entities, observations, relations, sqlite_sequence, now>>
         /\ commit
         /\ ret' = Result("log_run_end", "ok", Some(run_id))

log_run_end(run_id, status, notes, error_message, output_summary) ==
    LET matched == {r \in directive_runs : r.id = run_id}
    IN  IF matched # {} /\ \E r \in matched : RunRowRefused(Some(r.directive_name), status)
        THEN \* the constraint is evaluated on each updated row
             /\ ret' = Result("log_run_end", "raise", None)
             /\ UNCHANGED <<tables, disk, now>>
        ELSE /\ directive_runs' = (directive_runs \ matched) \cup
                    {[r EXCEPT !.ended_at = Some(now),
                               !.status = status[1],
                               !.notes = notes,
                               !.error_message = error_message,
                               !.output_summary = output_summary] : r \in matched}
             /\ UNCHANGED <<entities, observations, relations, sqlite_sequence, now>>
             /\ commit
             /\ ret' = Result("log_run_end", "ok", Some(run_id))

\* log_run with ended_at left out of the INSERT's columns
log_run_NoEndedAt(directive, status, notes, error_message, input_summary, output_summary) ==
    IF RunRowRefused(directive, status)
    THEN /\ ret' = Result("log_run", "raise", None)
         /\ UNCHANGED <<tables, disk, now>>
    ELSE LET run_id == lastrowid("directive_runs")
         IN  /\ run_id <= MaxRunId
             /\ directive_runs' = directive_runs \cup
                    {[id |-> run_id, directive_name |-> directive[1],
                      started_at |-> now, ended_at |-> None,
                      status |-> status[1], error_message |-> error_message,
                      notes |-> notes, input_summary |-> input_summary,
                      output_summary |-> output_summary]}
             /\ sqlite_sequence' = [sqlite_sequence EXCEPT !.directive_runs = run_id]
             /\ UNCHANGED <<entities, observations, relations, now>>
             /\ commit
             /\ ret' = Result("log_run", "ok", Some(run_id))

log_run(directive, status, notes, error_message, input_summary, output_summary) ==
    IF RunRowRefused(directive, status)
    THEN /\ ret' = Result("log_run", "raise", None)
         /\ UNCHANGED <<tables, disk, now>>
    ELSE LET run_id == lastrowid("directive_runs")
         IN  /\ run_id <= MaxRunId
             /\ directive_runs' = directive_runs \cup
                    {[id |-> run_id, directive_name |-> directive[1],
                      started_at |-> now, ended_at |-> Some(now),
                      status |-> status[1], error_message |-> error_message,
                      notes |-> notes, input_summary |-> input_summary,
                      output_summary |-> output_summary]}
             /\ sqlite_sequence' = [sqlite_sequence EXCEPT !.directive_runs = run_id]
             /\ UNCHANGED <<entities, observations, relations, now>>
             /\ commit
             /\ ret' = Result("log_run", "ok", Some(run_id))

\* a Python value that an "if" takes as true: neither None nor the empty text
Truthy(x) == x # None /\ x # Some("")

\* LIMIT n keeps the first n rows; a negative n keeps them all
Limited(rows, limit) ==
    IF limit < 0 \/ limit >= Len(rows) THEN rows ELSE SubSeq(rows, 1, limit)

\* the orders in which ORDER BY started_at DESC may return the rows: rows
\* with equal started_at come in any order
OrderedByStartedAtDesc(rows) ==
    {f \in [1..Cardinality(rows) -> rows] :
        /\ \A i, j \in 1..Cardinality(rows) : i # j => f[i] # f[j]
        /\ \A i, j \in 1..Cardinality(rows) :
              i < j => f[i].started_at >= f[j].started_at}

\* get_runs(directive, limit, status): the set of lists the query may return
get_runs(directive, limit, status) ==
    LET selected ==
            {r \in directive_runs :
                /\ Truthy(directive) => r.directive_name = directive[1]
                /\ Truthy(status) => r.status = status[1]}
    IN  {Limited(rows, limit) : rows \in OrderedByStartedAtDesc(selected)}

RunIds == 1..(MaxRunId + 1)

RunsNext ==
    \/ /\ Tick
       /\ UNCHANGED process
    \/ /\ \E s \in RunStarts : log_run_start(s.directive, s.input_summary)
       /\ UNCHANGED process
    \/ /\ \E run_id \in RunIds, o \in RunOutcomes :
             log_run_end(run_id, o.status, o.notes, o.error_message, o.output_summary)
       /\ UNCHANGED process
    \/ /\ \E s \in RunStarts, o \in RunOutcomes :
             log_run(s.directive, o.status, o.notes, o.error_message,
                     s.input_summary, o.output_summary)
       /\ UNCHANGED process

RunsSpec == Init /\ [][RunsNext]_vars

\* ------------------------------------------------ search and graph reading
\* the characters of a text: every text of the domains above that search
\* compares is empty or a single character
Chars(text) == IF text = "" THEN << >> ELSE <<text>>

\* LIKE compares ASCII letters without regard to case
Fold(c) ==
    CASE c = "A" -> "a"
      [] c = "X" -> "x"
      [] OTHER -> c

\* text LIKE pattern, no ESCAPE: % matches any run of characters, _ any one
RECURSIVE Like(_, _)
Like(pattern, text) ==
    IF pattern = << >> THEN text = << >>
    ELSE IF Head(pattern) = "%"
    THEN \/ Like(Tail(pattern), text)
         \/ text # << >> /\ Like(pattern, Tail(text))
    ELSE IF Head(pattern) = "_"
    THEN text # << >> /\ Like(Tail(pattern), Tail(text))
    ELSE /\ text # << >>
         /\ Fold(Head(pattern)) = Fold(Head(text))
         /\ Like(Tail(pattern), Tail(text))

\* column LIKE ? on a nullable column: NULL LIKE ... is not true
OptLike(pattern, column) == column # None /\ Like(pattern, Chars(column[1]))

\* the query texts search is called with, as their characters
Queries == {<< >>, <<"a">>, <<"A">>, <<"x">>, <<"_">>, <<"%">>}

\* search(query): the set of results the three queries may return. The first
\* two lists have no ORDER BY and are taken as sets (each joins or scans rows
\* distinct by id, so no row comes twice); the runs are a list
search(query) ==
    LET pattern == <<"%">> \o query \o <<"%">>
        found_entities ==
            {e \in entities : \/ Like(pattern, Chars(e.name))
                              \/ Like(pattern, Chars(e.entity_type))}
        found_observations ==
            {[id |-> q[1].id, entity_id |-> q[1].entity_id,
              content |-> q[1].content, created_at |-> q[1].created_at,
              entity_name |-> q[2].name] :
                q \in {j \in observations \X entities :
                          /\ j[1].entity_id = j[2].id
                          /\ Like(pattern, Chars(j[1].content))}}
        found_runs ==
            {r \in directive_runs : \/ Like(pattern, Chars(r.directive_name))
                                    \/ OptLike(pattern, r.notes)
                                    \/ OptLike(pattern, r.error_message)}
    IN  {[entities |-> found_entities, observations |-> found_observations,
          directive_runs |-> Limited(runs, 20)] :
            runs \in OrderedByStartedAtDesc(found_runs)}

\* the orders in which ORDER BY created_at DESC may return the rows
OrderedByCreatedAtDesc(rows) ==
    {f \in [1..Cardinality(rows) -> rows] :
        /\ \A i, j \in 1..Cardinality(rows) : i # j => f[i] # f[j]
        /\ \A i, j \in 1..Cardinality(rows) :
              i < j => f[i].created_at >= f[j].created_at}

\* read_graph(): the set of results it may return
read_graph ==
    LET joined ==
            {[id |-> q[1].id, from_entity_id |-> q[1].from_entity_id,
              to_entity_id |-> q[1].to_entity_id,
              relation_type |-> q[1].relation_type,
              created_at |-> q[1].created_at,
              from_name |-> q[2].name, to_name |-> q[3].name] :
                q \in {j \in relations \X entities \X entities :
                          /\ j[1].from_entity_id = j[2].id
                          /\ j[1].to_entity_id = j[3].id}}
    IN  {[entities |-> rows, relations |-> joined,
          stats |-> [entity_count |-> Len(rows),
                     relation_count |-> Cardinality(joined),
                     observation_count |-> Cardinality(observations),
                     directive_runs_count |-> Cardinality(directive_runs)]] :
            rows \in OrderedByCreatedAtDesc(entities)}

\* what a read returned: the value itself
Returned(op, value) == [op |-> op, kind |-> "ok", id |-> None, value |-> value]

\* the reads as steps of the connection: SELECT statements only, no commit
call_get_entity(name) ==
    /\ ret' = Returned("get_entity", get_entity(name))
    /\ UNCHANGED <<tables, disk, now>>

call_get_runs(directive, limit, status) ==
    /\ \E rows \in get_runs(directive, limit, status) :
          ret' = Returned("get_runs", rows)
    /\ UNCHANGED <<tables, disk, now>>

\* call_search with a commit after the SELECTs
call_search_Commits(query) ==
    /\ \E result \in search(query) : ret' = Returned("search", result)
    /\ UNCHANGED <<tables, now>>
    /\ commit

call_search(query) ==
    /\ \E result \in search(query) : ret' = Returned("search", result)
    /\ UNCHANGED <<tables, disk, now>>

call_read_graph ==
    /\ \E result \in read_graph : ret' = Returned("read_graph", result)
    /\ UNCHANGED <<tables, disk, now>>

\* ------------------------------------------------------------------- main
\* the commands of main, with arguments the command line can carry (every
\* text present, every status one of the parser's choices): one entity name,
\* one type, one relation type, one directive
Commands ==
    {"init", "add-entity", "add-observation", "add-relation", "log-run",
     "search", "get-entity", "get-runs", "read-graph", "delete-entity",
     "delete-observation"}
CommandNames == {Some("a")}
CommandObservations == {<< >>, <<Some("x")>>}
CommandStarts == {s \in RunStarts : s.directive = Some("x")}
CommandOutcomes == {o \in RunOutcomes : o.status = Some("success")}
CommandQueries == {<<"a">>, <<"_">>}

\* MemoryDB.close(): sqlite3 rolls back a transaction left open
close ==
    /\ conn = "open"
    /\ conn' = "closed"
    /\ entities' = disk.entities
    /\ observations' = disk.observations
    /\ relations' = disk.relations
    /\ directive_runs' = disk.directive_runs
    /\ sqlite_sequence' = disk.sqlite_sequence
    /\ UNCHANGED <<disk, now, ret>>

\* db = MemoryDB() of the next invocation of main
connect ==
    /\ pc = "exit"
    /\ pc' = "try"
    /\ conn' = "open"
    /\ ret' = Result("connect", "ok", None)
    /\ UNCHANGED <<tables, disk, now>>

\* a statement of the command's method fails in the storage engine (the
\* database is locked, the disk is full): sqlite3.OperationalError, which no
\* method catches
OperationalError(command) ==
    /\ ret' = Result(command, "raise", None)
    /\ UNCHANGED <<tables, disk, now>>

\* the try block: the method of the command is called and control leaves the
\* block, by its return (the result is printed) or by its exception
Try(call) ==
    /\ pc = "try"
    /\ conn = "open"
    /\ call
    /\ pc' = "finally"
    /\ UNCHANGED conn

\* main_finally placed after the print instead of in a finally clause: an
\* exception passes it by
main_finally_AfterPrint ==
    /\ pc = "finally"
    /\ ret.kind # "raise"
    /\ close
    /\ pc' = "exit"

\* finally: db.close(), however the try block was left
main_finally ==
    /\ pc = "finally"
    /\ close
    /\ pc' = "exit"

main ==
    \/ connect
    \/ Try(init_schema)
    \/ \E name \in CommandNames, obs \in CommandObservations :
          Try(create_entity(name, Some("t"), obs))
    \/ \E name \in CommandNames : Try(add_observation(name, Some("x")))
    \/ \E name \in CommandNames : Try(create_relation(name, name, Some("uses")))
    \/ \E s \in CommandStarts, o \in CommandOutcomes :
          Try(log_run(s.directive, o.status, o.notes, o.error_message,
                      s.input_summary, o.output_summary))
    \/ \E query \in CommandQueries : Try(call_search(query))
    \/ \E name \in CommandNames : Try(call_get_entity(name))
    \/ \E s \in CommandStarts : Try(call_get_runs(s.directive, 10, None))
    \/ Try(call_read_graph)
    \/ \E name \in CommandNames : Try(delete_entity(name))
    \/ \E obs_id \in ObsIds : Try(delete_observation(obs_id))
    \/ \E command \in Commands : Try(OperationalError(command))
    \/ main_finally

MainSpec == Init /\ [][main]_vars

\* main runs one statement after another and never waits: the step that is
\* enabled is taken
MainFairSpec == MainSpec /\ WF_vars(main)

\* the run log with one directive and three outcomes, beside a restart of the
\* caller and a delete_entity
RunFrameOutcomes ==
    {o \in RunOutcomes : o.status[1] \in {"success", "failed", "bogus"}}

RunFrameNext ==
    \/ /\ Tick
       /\ UNCHANGED process
    \/ /\ Reopen
       /\ UNCHANGED process
    \/ /\ \E s \in CommandStarts : log_run_start(s.directive, s.input_summary)
       /\ UNCHANGED process
    \/ /\ \E run_id \in RunIds, o \in RunFrameOutcomes :
             log_run_end(run_id, o.status, o.notes, o.error_message, o.output_summary)
       /\ UNCHANGED process
    \/ /\ \E s \in CommandStarts, o \in CommandOutcomes :
             log_run(s.directive, o.status, o.notes, o.error_message,
                     s.input_summary, o.output_summary)
       /\ UNCHANGED process
    \/ /\ \E name \in CommandNames : delete_entity(name)
       /\ UNCHANGED process

RunFrameSpec == Init /\ [][RunFrameNext]_vars

\* the four reads beside the writes that fill the store, one of them a
\* create_entity that fails after its first INSERT
ReadNext ==
    \/ /\ \E name \in CommandNames, obs \in {<<Some("x")>>, <<None>>} :
             create_entity(name, Some("t"), obs)
       /\ UNCHANGED process
    \/ /\ \E name \in CommandNames : create_relation(name, name, Some("uses"))
       /\ UNCHANGED process
    \/ /\ \E name \in CommandNames : delete_entity(name)
       /\ UNCHANGED process
    \/ /\ \E s \in CommandStarts, o \in CommandOutcomes :
             log_run(s.directive, o.status, o.notes, o.error_message,
                     s.input_summary, o.output_summary)
       /\ UNCHANGED process
    \/ /\ \E name \in NameArgs : call_get_entity(name)
       /\ UNCHANGED process
    \/ /\ \E s \in RunStarts, limit \in {1, 10} :
             call_get_runs(s.directive, limit, None)
       /\ UNCHANGED process
    \/ /\ \E query \in Queries : call_search(query)
       /\ UNCHANGED process
    \/ /\ call_read_graph
       /\ UNCHANGED process

ReadSpec == Init /\ [][ReadNext]_vars

\* the operations that return an id, with the deletions, a failing
\* create_entity and a restart of the caller
IdNext ==
    \/ /\ Reopen
       /\ UNCHANGED process
    \/ /\ \E name \in CommandNames,
             obs \in {<< >>, <<Some("x")>>, <<Some("x"), None>>} :
             create_entity(name, Some("t"), obs)
       /\ UNCHANGED process
    \/ /\ \E name \in CommandNames : delete_entity(name)
       /\ UNCHANGED process
    \/ /\ \E name \in CommandNames : add_observation(name, Some("x"))
       /\ UNCHANGED process
    \/ /\ \E obs_id \in ObsIds : delete_observation(obs_id)
       /\ UNCHANGED process
    \/ /\ \E name \in CommandNames : create_relation(name, name, Some("uses"))
       /\ UNCHANGED process
    \/ /\ \E s \in CommandStarts : log_run_start(s.directive, s.input_summary)
       /\ UNCHANGED process
    \/ /\ \E s \in CommandStarts, o \in CommandOutcomes :
             log_run(s.directive, o.status, o.notes, o.error_message,
                     s.input_summary, o.output_summary)
       /\ UNCHANGED process

IdSpec == Init /\ [][IdNext]_vars

Next == GraphNext \/ RunsNext \/ main

Spec == Init /\ [][Next]_vars

\* ---------------------------------------------------------------- claims
\* C1: a delete_entity(name) that finds the entity leaves no observation
\* owned by it and no relation with it as from- or to-endpoint, and
\* get_entity(name) then returns None.
C1_DeleteEntityCascades ==
    [][\A name \in NameArgs :
          (EntityByName(name) # {} /\ delete_entity(name)) =>
              LET gone == {e.id : e \in EntityByName(name)}
              IN  /\ ret'.kind = "ok"
                  /\ \A o \in observations' : o.entity_id \notin gone
                  /\ \A r \in relations' : /\ r.from_entity_id \notin gone
                                          /\ r.to_entity_id \notin gone
                  /\ (get_entity(name))' = None]_vars

\* C2: in every reachable state every observation's entity_id and every
\* relation's from_entity_id and to_entity_id is the id of an existing entity.
C2_ReferentialIntegrity ==
    LET ids == {e.id : e \in entities}
    IN  /\ \A o \in observations : o.entity_id \in ids
        /\ \A r \in relations : r.from_entity_id \in ids /\ r.to_entity_id \in ids

\* C3: before and after every step no two entities share a name, in the
\* connection's view and in the database file; create_entity with a name that exists returns the conflict
\* error and changes nothing, neither a table nor the file.
UniqueNames(rows) == \A e1, e2 \in rows : e1.name = e2.name => e1 = e2

C3_UniqueEntityNames ==
    [][/\ UniqueNames(entities) /\ UniqueNames(disk.entities)
       /\ UniqueNames(entities') /\ UniqueNames(disk'.entities)
       /\ \A name \in NameArgs :
             (/\ EntityByName(name) # {}
              /\ ret'.op = "create_entity"
              /\ \E entity_type \in EntityTypeArgs, obs \in ObservationLists :
                    create_entity(name, entity_type, obs)) =>
                 /\ ret' = Result("create_entity", "conflict", None)
                 /\ UNCHANGED <<tables, disk>>]_vars

\* C3's case: a create_entity was refused while an entity with an observation
\* and a relation exists and nothing is uncommitted
C3_Witness ==
    /\ ret = Result("create_entity", "conflict", None)
    /\ View = disk
    /\ \E e \in entities :
          /\ \E o \in observations : o.entity_id = e.id
          /\ \E r \in relations : r.from_entity_id = e.id

\* C4: create_entity is all-or-nothing. When it returns the entity, the
\* entity row and one observation row per supplied observation, owned by the
\* new entity, are in the database file. An entity row reaches the file only
\* in the step of the create_entity that returned it, and an observation row
\* only in the step of a create_entity or add_observation that succeeded: the
\* rows of a call that returned an error are never persisted, neither at once
\* nor by the commit of a later operation.
C4_CreateEntityAllOrNothing ==
    [][/\ \A name \in NameArgs, entity_type \in EntityTypeArgs,
             obs \in ObservationLists :
             (create_entity(name, entity_type, obs) /\ ret'.kind = "ok") =>
                 \E e \in disk'.entities \ disk.entities :
                     LET added == disk'.observations \ disk.observations
                     IN  /\ e.name = name[1]
                         /\ e.entity_type = entity_type[1]
                         /\ ret'.id = Some(e.id)
                         /\ Cardinality(added) = Len(obs)
                         /\ \A o \in added : o.entity_id = e.id
                         /\ \A i \in 1..Len(obs) :
                               \E o \in added : Some(o.content) = obs[i]
       /\ \A e \in disk'.entities \ disk.entities :
             ret' = Result("create_entity", "ok", Some(e.id))
       /\ \A o \in disk'.observations \ disk.observations :
             /\ ret'.op \in {"create_entity", "add_observation"}
             /\ ret'.kind = "ok"]_vars

\* C5: before and after every step no two relations share the ordered triple
\* (from, to, type); create_relation between two existing entities returns the
\* conflict error and changes nothing when the triple exists, and otherwise
\* succeeds, whatever other types already link the pair, storing the new
\* relation beside the old ones.
UniqueTriples(rows) ==
    \A r1, r2 \in rows :
        (/\ r1.from_entity_id = r2.from_entity_id
         /\ r1.to_entity_id = r2.to_entity_id
         /\ r1.relation_type = r2.relation_type) => r1 = r2

C5_UniqueRelationTriples ==
    [][/\ UniqueTriples(relations) /\ UniqueTriples(disk.relations)
       /\ UniqueTriples(relations') /\ UniqueTriples(disk'.relations)
       /\ \A from_name \in NameArgs, to_name \in NameArgs,
             relation_type \in RelationTypeArgs :
             (/\ EntityByName(from_name) # {}
              /\ EntityByName(to_name) # {}
              /\ create_relation(from_name, to_name, relation_type)) =>
                 LET from_id == (CHOOSE e \in EntityByName(from_name) : TRUE).id
                     to_id == (CHOOSE e \in EntityByName(to_name) : TRUE).id
                     triple == [from_entity_id |-> from_id, to_entity_id |-> to_id,
                                relation_type |-> relation_type[1]]
                     Triple(r) == [from_entity_id |-> r.from_entity_id,
                                   to_entity_id |-> r.to_entity_id,
                                   relation_type |-> r.relation_type]
                 IN  IF \E r \in relations : Triple(r) = triple
                     THEN /\ ret' = Result("create_relation", "conflict", None)
                          /\ UNCHANGED <<tables, disk>>
                     ELSE /\ ret'.kind = "ok"
                          /\ relations \subseteq relations'
                          /\ \E r \in relations' \ relations :
                                /\ Triple(r) = triple
                                /\ relations' = relations \cup {r}
                          /\ disk'.relations = relations']_vars

\* C5's case: two relations of different types link the same ordered pair
\* and a create_relation has just been refused as a duplicate
C5_Witness ==
    /\ ret = Result("create_relation", "conflict", None)
    /\ \E r1, r2 \in relations :
          /\ r1.from_entity_id = r2.from_entity_id
          /\ r1.to_entity_id = r2.to_entity_id
          /\ r1.relation_type # r2.relation_type

\* C6: log_run_end with an id that matches no directive run returns a
\* not-found error result and changes no run row.
C6_EndRunUnknownIdNotFound ==
    [][\A run_id \in RunIds, o \in RunOutcomes :
          (/\ \A r \in directive_runs : r.id # run_id
           /\ log_run_end(run_id, o.status, o.notes, o.error_message,
                           o.output_summary)) =>
              /\ ret'.kind = "not_found"
              /\ directive_runs' = directive_runs
              /\ disk'.directive_runs = disk.directive_runs]_vars

\* C7: a directive run whose ended_at is set is never changed by a later
\* step: the row stays in the table with every field as it was.
C7_EndedRunsImmutable ==
    [][\A r \in directive_runs : r.ended_at # None => r \in directive_runs']_vars

\* C8: a not-found outcome never mutates the store. delete_entity of an
\* absent name, add_observation to an absent entity, delete_observation of an
\* absent id and create_relation with an absent endpoint each return the
\* not-found error and leave the tables and the database file as they were.
C8_NotFoundLeavesStore ==
    [][/\ \A name \in NameArgs :
             (EntityByName(name) = {} /\ delete_entity(name)) =>
                 (ret'.kind = "not_found" /\ UNCHANGED <<tables, disk>>)
       /\ \A name \in NameArgs :
             (/\ EntityByName(name) = {}
              /\ \E content \in ContentArgs : add_observation(name, content)) =>
                 (ret'.kind = "not_found" /\ UNCHANGED <<tables, disk>>)
       /\ \A obs_id \in ObsIds :
             (/\ \A o \in observations : o.id # obs_id
              /\ delete_observation(obs_id)) =>
                 (ret'.kind = "not_found" /\ UNCHANGED <<tables, disk>>)
       /\ \A from_name \in NameArgs, to_name \in NameArgs :
             (/\ EntityByName(from_name) = {} \/ EntityByName(to_name) = {}
              /\ \E relation_type \in RelationTypeArgs :
                    create_relation(from_name, to_name, relation_type)) =>
                 (ret'.kind = "not_found" /\ UNCHANGED <<tables, disk>>)]_vars

\* C9: before and after every step every run's status is one of started,
\* success, failed, partial; a log_run_end or log_run call carrying any other
\* status raises and leaves the run rows unchanged (log_run_start carries no
\* status).
StatusesValid(rows) == \A r \in rows : r.status \in StatusValues

C9_StatusEnumeration ==
    [][/\ StatusesValid(directive_runs) /\ StatusesValid(directive_runs')
       /\ \A o \in {x \in RunOutcomes : x.status[1] \notin StatusValues} :
             /\ \A run_id \in RunIds :
                   log_run_end(run_id, o.status, o.notes, o.error_message,
                               o.output_summary) =>
                       (ret'.kind = "raise" /\ directive_runs' = directive_runs)
             /\ \A s \in RunStarts :
                   log_run(s.directive, o.status, o.notes, o.error_message,
                           s.input_summary, o.output_summary) =>
                       (ret'.kind = "raise" /\ directive_runs' = directive_runs)]_vars

\* C10: two-phase round trip. When log_run_end(id, s, ...) with s one of
\* success, failed, partial closes a run that log_run_start opened, the run
\* has status s, an ended_at, and its directive name and started_at as before;
\* when it is the only run of its directive d, get_runs(d, limit = 1) returns
\* exactly that one row.
TerminalStatuses == {"success", "failed", "partial"}

C10_TwoPhaseRoundTrip ==
    [][\A open \in {r \in directive_runs : r.status = "started" /\ r.ended_at = None},
          o \in {x \in RunOutcomes : x.status[1] \in TerminalStatuses} :
          log_run_end(open.id, o.status, o.notes, o.error_message,
                      o.output_summary) =>
              \E closed \in directive_runs' :
                  /\ closed.id = open.id
                  /\ ret' = Result("log_run_end", "ok", Some(open.id))
                  /\ closed.status = o.status[1]
                  /\ closed.ended_at # None
                  /\ closed.directive_name = open.directive_name
                  /\ closed.started_at = open.started_at
                  /\ (\A r \in directive_runs :
                         r.directive_name = open.directive_name => r = open)
                     => (get_runs(Some(open.directive_name), 1, None))'
                            = {<<closed>>}]_vars

\* C11: get_runs(directive, limit, status). Every list it may return is in
\* descending order of started_at and has at most limit rows; with a directive
\* filter every row has exactly that directive name, with a status filter
\* exactly that status; and the list is the first limit rows of some
\* descending order of the runs that pass the filters given.
DirectiveFilters == Opt({"", "x"})
StatusFilters == Opt({"started", "success"})
Limits == 0..MaxRunId

C11_GetRunsFilteredOrderedLimited ==
    \A directive \in DirectiveFilters, status \in StatusFilters, limit \in Limits :
        \A rows \in get_runs(directive, limit, status) :
            LET filtered ==
                    {r \in directive_runs :
                        /\ directive # None => r.directive_name = directive[1]
                        /\ status # None => r.status = status[1]}
            IN  /\ \A i, j \in 1..Len(rows) :
                      i < j => rows[i].started_at >= rows[j].started_at
                /\ Len(rows) <= limit
                /\ directive # None =>
                      \A i \in 1..Len(rows) : rows[i].directive_name = directive[1]
                /\ status # None =>
                      \A i \in 1..Len(rows) : rows[i].status = status[1]
                /\ \E all \in OrderedByStartedAtDesc(filtered) :
                      /\ Len(rows) = IF limit < Len(all) THEN limit ELSE Len(all)
                      /\ \A i \in 1..Len(rows) : rows[i] = all[i]

\* C12: search(query) is literal substring matching. Its entities are exactly
\* the entities whose name or type contains the query as a contiguous
\* substring, its observations exactly the observations whose content
\* contains the query, each with the name of the entity that owns it, and
\* every run it returns contains the query in its directive name, notes or
\* error message.
Contains(text, query) ==
    \E i \in 0..Len(text) :
        /\ i + Len(query) <= Len(text)
        /\ SubSeq(text, i + 1, i + Len(query)) = query

OptContains(column, query) == column # None /\ Contains(Chars(column[1]), query)

C12_SearchLiteralSubstring ==
    \A query \in Queries :
        \A result \in search(query) :
            /\ result.entities =
                  {e \in entities : \/ Contains(Chars(e.name), query)
                                    \/ Contains(Chars(e.entity_type), query)}
            /\ {o.id : o \in result.observations} =
                  {o.id : o \in {p \in observations :
                                    Contains(Chars(p.content), query)}}
            /\ \A o \in result.observations :
                  \E e \in entities : e.id = o.entity_id /\ e.name = o.entity_name
            /\ \A i \in 1..Len(result.directive_runs) :
                  LET r == result.directive_runs[i]
                  IN  \/ Contains(Chars(r.directive_name), query)
                      \/ OptContains(r.notes, query)
                      \/ OptContains(r.error_message, query)

\* C17: the directive_runs list of search(query) has at most 20 rows, in
\* descending order of started_at, each of them a run that contains the
\* query in its directive name, notes or error message, and no such run left
\* out of the list started later than a run in the list.
MatchesQuery(r, query) ==
    \/ Contains(Chars(r.directive_name), query)
    \/ OptContains(r.notes, query)
    \/ OptContains(r.error_message, query)

C17_SearchRunsMostRecentTwenty ==
    \A query \in Queries :
        \A result \in search(query) :
            LET runs == result.directive_runs
                listed == {runs[i] : i \in 1..Len(runs)}
            IN  /\ Len(runs) <= 20
                /\ \A i, j \in 1..Len(runs) :
                      i < j => runs[i].started_at >= runs[j].started_at
                /\ \A r \in listed : r \in directive_runs /\ MatchesQuery(r, query)
                /\ \A r \in directive_runs \ listed :
                      MatchesQuery(r, query) =>
                          \A q \in listed : r.started_at <= q.started_at

\* C13: in every reachable state every result of read_graph() lists every
\* entity and every stored relation, each relation with the names of both its
\* endpoints, and its stats are the numbers of entities, of relations, of
\* observations owned by existing entities, and of directive runs.
C13_ReadGraphComplete ==
    \A result \in read_graph :
        LET ids == {e.id : e \in entities}
        IN  /\ {result.entities[i] : i \in 1..Len(result.entities)} = entities
            /\ Len(result.entities) = Cardinality(entities)
            /\ {r.id : r \in result.relations} = {r.id : r \in relations}
            /\ \A r \in result.relations :
                  /\ \E e \in entities : e.id = r.from_entity_id /\ e.name = r.from_name
                  /\ \E e \in entities : e.id = r.to_entity_id /\ e.name = r.to_name
            /\ result.stats.entity_count = Cardinality(entities)
            /\ result.stats.relation_count = Cardinality(relations)
            /\ result.stats.observation_count =
                  Cardinality({o \in observations : o.entity_id \in ids})
            /\ result.stats.directive_runs_count = Cardinality(directive_runs)

\* C14: delete_entity(name) touches only that entity's own data. In the
\* connection's view and in the database file alike, every entity of another
\* name, every observation owned by another entity, every relation with both
\* endpoints other entities, and every directive run is after the call as it
\* was before.
OthersData(db, name, own) ==
    [entities |-> {e \in db.entities : Some(e.name) # name},
     observations |-> {o \in db.observations : o.entity_id \notin own},
     relations |-> {r \in db.relations : /\ r.from_entity_id \notin own
                                        /\ r.to_entity_id \notin own},
     directive_runs |-> db.directive_runs]

C14_DeleteEntityFrame ==
    [][\A name \in NameArgs :
          delete_entity(name) =>
              LET own == {e.id : e \in EntityByName(name)}
              IN  /\ OthersData(View, name, own) = OthersData(View', name, own)
                  /\ OthersData(disk, name, own) = OthersData(disk', name, own)]_vars

\* C15: init_schema is idempotent. Called in any reachable state it returns
\* its one result and leaves every entity, observation, relation and run row
\* as it was, in the connection's view and in the database file.
Rows(db) ==
    <<db.entities, db.observations, db.relations, db.directive_runs>>

C15_InitSchemaIdempotent ==
    [][init_schema =>
          /\ ret' = Result("init_schema", "ok", None)
          /\ Rows(View') = Rows(View)
          /\ Rows(disk') = Rows(disk)]_vars

\* C16: in every invocation of main the connection, once open, is eventually
\* closed, whether the command's method returned a result, returned an error
\* result or raised.
C16_ConnectionEventuallyClosed ==
    (conn = "open") ~> (conn = "closed")

\* C16's case: the method raised and the connection is closed at exit
C16_Witness ==
    /\ pc = "exit"
    /\ conn = "closed"
    /\ ret.kind = "raise"

\* C18: log_run_start inserts exactly one run, with status started and no
\* ended_at, commits it and returns its id. A run that is started and has no
\* ended_at stays exactly so, in the table and in the database file, through
\* every step that is not a log_run_end with its id. log_run_end(id, ...)
\* changes no run of another id, adds and removes no run, and leaves the
\* directive name, started_at and input summary of the run with that id.
OpenRuns(rows) == {r \in rows : r.status = "started" /\ r.ended_at = None}

C18_StartedRunFrame ==
    [][/\ ret'.op = "log_run_start" =>
             \A s \in RunStarts :
                 log_run_start(s.directive, s.input_summary) =>
                     \E r \in OpenRuns(directive_runs') :
                         /\ r \notin directive_runs
                         /\ directive_runs' = directive_runs \cup {r}
                         /\ disk'.directive_runs = directive_runs'
                         /\ \A q \in directive_runs : q.id # r.id
                         /\ r.directive_name = s.directive[1]
                         /\ r.input_summary = s.input_summary
                         /\ ret' = Result("log_run_start", "ok", Some(r.id))
       /\ \A r \in OpenRuns(directive_runs) :
             \/ r \in OpenRuns(directive_runs') /\ r \in disk'.directive_runs
             \/ /\ ret'.op = "log_run_end"
                /\ \E o \in RunOutcomes :
                      log_run_end(r.id, o.status, o.notes, o.error_message,
                                  o.output_summary)
       /\ ret'.op = "log_run_end" =>
             \A run_id \in RunIds :
                 (\E o \in RunOutcomes :
                     log_run_end(run_id, o.status, o.notes, o.error_message,
                                 o.output_summary)) =>
                     /\ \A r \in directive_runs :
                           r.id # run_id => r \in directive_runs'
                     /\ {r.id : r \in directive_runs'} = {r.id : r \in directive_runs}
                     /\ Cardinality(directive_runs') = Cardinality(directive_runs)
                     /\ \A r \in directive_runs, q \in directive_runs' :
                           (r.id = run_id /\ q.id = run_id) =>
                               /\ q.directive_name = r.directive_name
                               /\ q.started_at = r.started_at
                               /\ q.input_summary = r.input_summary]_vars

\* C18's case: of two runs started, one was ended by its id and the other is
\* still started with no ended_at, in the table and in the file
C18_Witness ==
    /\ ret.op = "log_run_end"
    /\ ret.kind = "ok"
    /\ \E r \in directive_runs : Some(r.id) = ret.id /\ r.ended_at # None
    /\ \E r \in OpenRuns(directive_runs) :
          Some(r.id) # ret.id /\ r \in disk.directive_runs

\* C19: get_entity, get_runs, search and read_graph never change the store:
\* after any of them the entities, observations, relations and runs are the
\* same as before the call, in the connection's view and in the database
\* file.
C19_ReadsLeaveStore ==
    [][/\ ret'.op = "get_entity" =>
             \A name \in NameArgs :
                 call_get_entity(name) =>
                     Rows(View') = Rows(View) /\ Rows(disk') = Rows(disk)
       /\ ret'.op = "get_runs" =>
             \A s \in RunStarts, limit \in {1, 10} :
                 call_get_runs(s.directive, limit, None) =>
                     Rows(View') = Rows(View) /\ Rows(disk') = Rows(disk)
       /\ ret'.op = "search" =>
             \A query \in Queries :
                 call_search(query) =>
                     Rows(View') = Rows(View) /\ Rows(disk') = Rows(disk)
       /\ ret'.op = "read_graph" =>
             (call_read_graph =>
                 Rows(View') = Rows(View) /\ Rows(disk') = Rows(disk))]_vars

\* C19's case: a search has returned an entity whose rows are not yet in the
\* file, and they still are not
C19_Witness ==
    /\ ret.op = "search"
    /\ ret.value.entities # {}
    /\ ret.value.entities \cap disk.entities = {}

\* C20: ids are never reused. In each table with ids the committed
\* high-water mark never goes down and covers every committed row; an id
\* returned by create_entity, add_observation, log_run_start or log_run is
\* above the mark and above every row of its table, and is under the mark
\* once returned: so it is greater than every id returned or stored before.
\* No observation or relation carries the id of an entity at the moment
\* create_entity returns it.
IdTable(op) ==
    CASE op = "create_entity" -> "entities"
      [] op = "add_observation" -> "observations"
      [] op \in {"log_run_start", "log_run"} -> "directive_runs"

RowIds(db, table) ==
    CASE table = "entities" -> {e.id : e \in db.entities}
      [] table = "observations" -> {o.id : o \in db.observations}
      [] table = "directive_runs" -> {r.id : r \in db.directive_runs}

C20_IdsNeverReused ==
    [][/\ \A table \in {"entities", "observations", "directive_runs"} :
             /\ disk'.sqlite_sequence[table] >= disk.sqlite_sequence[table]
             /\ \A id \in RowIds(disk', table) : id <= disk'.sqlite_sequence[table]
       /\ (/\ ret'.kind = "ok"
           /\ ret'.op \in {"create_entity", "add_observation",
                           "log_run_start", "log_run"}) =>
             LET table == IdTable(ret'.op)
                 id == ret'.id[1]
             IN  /\ id > disk.sqlite_sequence[table]
                 /\ id <= disk'.sqlite_sequence[table]
                 /\ \A old \in RowIds(View, table) \cup RowIds(disk, table) : old < id
                 /\ id \in RowIds(disk', table)
       /\ (ret'.kind = "ok" /\ ret'.op = "create_entity") =>
             /\ \A o \in observations \cup disk.observations :
                   Some(o.entity_id) # ret'.id
             /\ \A r \in relations \cup disk.relations :
                   /\ Some(r.from_entity_id) # ret'.id
                   /\ Some(r.to_entity_id) # ret'.id]_vars

\* C20's case: create_entity has returned a new id while an observation and
\* a relation of a deleted entity are still stored
C20_Witness ==
    /\ ret.op = "create_entity"
    /\ ret.kind = "ok"
    /\ \E o \in observations : \A e \in entities : e.id # o.entity_id
    /\ \E r \in relations : \A e \in entities : e.id # r.from_entity_id

\* C21: in every reachable state every directive run without an ended_at has
\* status started, in the connection's view and in the database file.
C21_NullEndTimeIsStarted ==
    \A r \in directive_runs \cup disk.directive_runs :
        r.ended_at = None => r.status = "started"

\* C21's case: one run is open, and another was closed by log_run_end or
\* written whole by log_run
C21_Witness ==
    /\ ret.op \in {"log_run_end", "log_run"}
    /\ ret.kind = "ok"
    /\ \E r \in directive_runs : r.ended_at = None
    /\ \E r \in directive_runs : r.ended_at # None /\ Some(r.id) = ret.id
====
